---- MODULE Spec2Model ----
(***************************************************************************)
(* Job pipeline of the furniture visualisation platform: the job record,   *)
(* BaseWorker.update_job_status, the four stage workers' process() and the *)
(* RQ queue manager (enqueue_job), as written in the backend worker guide. *)
(***************************************************************************)
EXTENDS Integers, Sequences, FiniteSets, TLC

\* ---------------------------------------------------------------- bounds
NumJobs == 2
MaxEnqueue == 2

\* worker-deployment.yaml: replicas of the worker container, each running
\* `rq worker segmentation stain 3d render`
NumWorkers == 3

Jobs == 1..NumJobs

\* ------------------------------------------------------------ job record
\* jobs.Row.type
RowTypes == {"segment", "stain", "3d", "render", "export"}
\* jobs.Row.status
Statuses == {"pending", "processing", "completed", "failed"}
Terminal == {"completed", "failed"}

\* SQL NULL in a text / json column, and in a timestamp column
Null == "null"
NullTs == 0

\* Python values handed to update_job_status: None, and the values whose
\* truth value is False ({} and '').
None == "None"
EmptyDict == "{}"
EmptyStr == ""
Truthy(x) == x \notin {None, EmptyDict, EmptyStr}

\* json.dumps(output_data): the stored text is not the dict itself
JsonDumps(d) == <<"json", d>>

\* A freshly inserted job row: status pending, nothing else set.
NewJob(t) ==
    [type |-> t, status |-> "pending", output_data |-> Null,
     error_message |-> Null, started_at |-> NullTs, completed_at |-> NullTs]

\* BaseWorker.update_job_status: builds the update dict and applies it to the
\* row with this id, whatever the row's current status is.
update_job_status(row, status, output_data, error, ts) ==
    LET r1 == [row EXCEPT !.status = status]
        r2 == IF Truthy(output_data)
              THEN [r1 EXCEPT !.output_data = JsonDumps(output_data)] ELSE r1
        r3 == IF Truthy(error) THEN [r2 EXCEPT !.error_message = error] ELSE r2
    IN  IF status = "processing" THEN [r3 EXCEPT !.started_at = ts]
        ELSE IF status \in {"completed", "failed"}
             THEN [r3 EXCEPT !.completed_at = ts]
             ELSE r3

\* ------------------------------------------------------------ dispatcher
\* queue_manager: the four RQ queues
QueueNames == {"segmentation", "stain", "3d", "render"}

NoRoute == [queue |-> "none", worker_class |-> "none"]

\* enqueue_job with its final `else` falling back to a default queue instead
\* of raising.
Route_DefaultQueue(job_type) ==
    CASE job_type = "stain"   -> [queue |-> "stain", worker_class |-> "StainWorker"]
      [] job_type = "3d"      -> [queue |-> "3d", worker_class |-> "ThreeDWorker"]
      [] job_type = "render"  -> [queue |-> "render", worker_class |-> "RenderWorker"]
      [] OTHER                -> [queue |-> "segmentation", worker_class |-> "SegmentationWorker"]

\* enqueue_job's if/elif chain: the queue and worker class of a job type, or
\* NoRoute where the chain ends in `raise ValueError`.
Route(job_type) ==
    CASE job_type = "segment" -> [queue |-> "segmentation", worker_class |-> "SegmentationWorker"]
      [] job_type = "stain"   -> [queue |-> "stain", worker_class |-> "StainWorker"]
      [] job_type = "3d"      -> [queue |-> "3d", worker_class |-> "ThreeDWorker"]
      [] job_type = "render"  -> [queue |-> "render", worker_class |-> "RenderWorker"]
      [] OTHER                -> NoRoute

\* The output dict each worker class hands to update_job_status on success.
OutputOf(worker_class) ==
    CASE worker_class = "SegmentationWorker" -> "masks+components"
      [] worker_class = "StainWorker"        -> "texture"
      [] worker_class = "ThreeDWorker"       -> "glb+usdz"
      [] worker_class = "RenderWorker"       -> "mp4+gif"
      [] OTHER                               -> None

\* str(e) of the exception a stage's work can raise: some exceptions
\* (a bare timeout of the HTTP client) carry an empty message.
ErrorTexts == {EmptyStr, "error"}

VARIABLES
    jobs,       \* the jobs table: job id -> row
    queues,     \* RQ queue name -> the enqueued process() calls, oldest first
    running,    \* the calls that workers have taken off a queue and not finished
    now,        \* job id -> the time now() yields for the next write of that row
    enqCount,   \* number of enqueue_job calls made so far
    enqResult,  \* outcome of the latest enqueue_job call
    history,    \* job id -> every status write made, in order
    log,        \* job id -> event records persisted for the job
    timedOut,   \* ids of the calls whose job_timeout elapsed while they ran
    deployment, \* how the rq workers were started
    seg,        \* SegmentationWorker.process: the locals of the call followed
    render,     \* RenderWorker.process: the locals, files and records of the call followed
    mesh,       \* ThreeDWorker.process: the locals, files and uploads of the call followed
    stain,      \* StainWorker.process: the inputs, maps, storage and texture records
    stats,      \* image_processing_operations, images and processing_statistics with their triggers
    edge,       \* the image-processing edge function: one request being served
    prompt      \* ai_prompts.usage_count and the browser sessions that show the prompt

vars == <<jobs, queues, running, now, enqCount, enqResult, history, log, timedOut,
          deployment, seg, render, mesh, stain, stats, edge, prompt>>

\* the variables of the other stages and of the application around the pipeline
restVars == <<mesh, stain, stats, edge, prompt>>

NoEnqueue == [job |-> 0, result |-> "none"]

\* The two ways the guide starts the workers. "per-queue": Start Workers, one
\* `rq worker <queue>` process for each queue. "replicas": the container image,
\* NumWorkers replicas of `rq worker segmentation stain 3d render`.
Deployments == {"per-queue", "replicas"}

\* No call of SegmentationWorker.process is followed statement by statement.
SegIdle ==
    [pc |-> "idle", images |-> <<>>, idx |-> 0, k |-> 0, attempts |-> 0,
     results |-> <<>>, masks |-> <<>>, components |-> <<>>]

\* No call of RenderWorker.process is followed statement by statement.
\* files: the frame files written to frames_dir so far; video, gif: the frames
\* ffmpeg assembled; uploads: the files put in storage; outputs: the number of
\* render_outputs records inserted.
RenderIdle ==
    [pc |-> "idle", frames |-> 0, model |-> "absent", lookup |-> "none", i |-> 0,
     files |-> {}, video |-> <<>>, gif |-> <<>>, uploads |-> {}, outputs |-> 0]

\* Nothing of the other stages and of the application is followed.
NotRunning == [pc |-> "idle"]

RestIdle ==
    /\ mesh = NotRunning
    /\ stain = NotRunning
    /\ stats = NotRunning
    /\ edge = NotRunning
    /\ prompt = NotRunning

\* The pipeline as deployed: started empty, with the workers of deployment d.
Pipeline(d) ==
    /\ queues = [q \in QueueNames |-> <<>>]
    /\ running = {}
    /\ now = [j \in Jobs |-> 1]
    /\ enqCount = 0
    /\ enqResult = NoEnqueue
    /\ history = [j \in Jobs |-> <<>>]
    /\ log = [j \in Jobs |-> <<>>]
    /\ timedOut = {}
    /\ deployment = d

Init ==
    /\ jobs \in [Jobs -> {NewJob(t) : t \in RowTypes}]
    /\ Pipeline("replicas")
    /\ seg = SegIdle
    /\ render = RenderIdle
    /\ RestIdle

\* One call of update_job_status on job j: the row is rewritten (the only
\* statement that touches the database, .update(update).eq('id', job_id)), and
\* a later write of the row reads a later now(). No event record is written.
StatusWrite(j, status, output_data, error) ==
    /\ jobs' = [jobs EXCEPT ![j] = update_job_status(@, status, output_data, error, now[j])]
    /\ now' = [now EXCEPT ![j] = @ + 1]
    /\ history' = [history EXCEPT ![j] = Append(@, <<status, now[j]>>)]
    /\ UNCHANGED log

\* enqueue_job(job_type, job_id, input_data), called with the row's own type.
\* queue.enqueue creates a new RQ call (with its own id) for worker_class().process.
Enqueue(j) ==
    LET r == Route(jobs[j].type) IN
    /\ enqCount < MaxEnqueue
    /\ enqCount' = enqCount + 1
    /\ IF r = NoRoute
       THEN /\ enqResult' = [job |-> j, result |-> "ValueError"]
            /\ UNCHANGED queues
       ELSE /\ enqResult' = [job |-> j, result |-> "queued"]
            /\ queues' = [queues EXCEPT ![r.queue] =
                            Append(@, [id |-> enqCount + 1, job |-> j,
                                       worker_class |-> r.worker_class])]
    /\ UNCHANGED <<jobs, running, now, history, log, timedOut, deployment, seg, render, restVars>>

\* Workers that take a call off a queue whether or not they are busy.
Idle_Always(q) == TRUE

\* Some worker that listens to queue q runs no call. An rq worker runs one
\* call at a time; per queue there is one worker, or NumWorkers workers that
\* each listen to every queue.
Idle(q) ==
    IF deployment = "per-queue"
    THEN \A c \in running : c.queue # q
    ELSE Cardinality(running) < NumWorkers

\* The number of workers that listen to one queue.
PoolBound == IF deployment = "per-queue" THEN 1 ELSE NumWorkers

\* rq worker: an idle worker takes the oldest call off queue q.
Dequeue(q) ==
    /\ Idle(q)
    /\ queues[q] # <<>>
    /\ LET c == Head(queues[q]) IN
       running' = running \cup
           {[id |-> c.id, job |-> c.job, worker_class |-> c.worker_class,
             queue |-> q, pc |-> "dequeued"]}
    /\ queues' = [queues EXCEPT ![q] = Tail(@)]
    /\ UNCHANGED <<jobs, now, enqCount, enqResult, history, log, timedOut, deployment, seg, render, restVars>>

\* process(): its first statement, update_job_status(job_id, 'processing').
Begin(c) ==
    /\ c \in running
    /\ c.pc = "dequeued"
    /\ StatusWrite(c.job, "processing", None, None)
    /\ running' = (running \ {c}) \cup {[c EXCEPT !.pc = "work"]}
    /\ UNCHANGED <<queues, enqCount, enqResult, timedOut, deployment, seg, render, restVars>>

\* process(): the try body ran to its end,
\* update_job_status(job_id, 'completed', output_data).
Succeed(c) ==
    /\ c \in running
    /\ c.pc = "work"
    /\ StatusWrite(c.job, "completed", OutputOf(c.worker_class), None)
    /\ running' = running \ {c}
    /\ UNCHANGED <<queues, enqCount, enqResult, timedOut, deployment, seg, render, restVars>>

\* process() with an except clause that swallows the exception and writes no
\* status.
Raise_Swallowed(c, msg) ==
    /\ c \in running
    /\ c.pc = "work"
    /\ running' = running \ {c}
    /\ UNCHANGED <<jobs, now, history, log, queues, enqCount, enqResult, timedOut, deployment, seg, render, restVars>>

\* process(): the try body raised e,
\* update_job_status(job_id, 'failed', error=str(e)).
Raise(c, msg) ==
    /\ c \in running
    /\ c.pc = "work"
    /\ StatusWrite(c.job, "failed", None, msg)
    /\ running' = running \ {c}
    /\ UNCHANGED <<queues, enqCount, enqResult, timedOut, deployment, seg, render, restVars>>

\* str(e) of the JobTimeoutException RQ raises in the running call once
\* job_timeout ('2h') has elapsed.
TimeoutText == "Task exceeded maximum timeout value (7200 seconds)"

\* A timeout that marks the job failed and lets the handler run on.
Timeout_NotAbandoned(c) ==
    /\ c \in running
    /\ c.pc = "work"
    /\ c.id \notin timedOut
    /\ StatusWrite(c.job, "failed", None, TimeoutText)
    /\ timedOut' = timedOut \cup {c.id}
    /\ UNCHANGED <<running, queues, enqCount, enqResult, deployment, seg, render, restVars>>

\* job_timeout='2h': the timeout elapses while the try body of process() runs;
\* the exception is raised inside the try body, which ends there, and the
\* except clause writes update_job_status(job_id, 'failed', error=str(e)).
Timeout(c) ==
    /\ c \in running
    /\ c.pc = "work"
    /\ StatusWrite(c.job, "failed", None, TimeoutText)
    /\ running' = running \ {c}
    /\ timedOut' = timedOut \cup {c.id}
    /\ UNCHANGED <<queues, enqCount, enqResult, deployment, seg, render, restVars>>

Next ==
    \/ \E j \in Jobs : Enqueue(j)
    \/ \E q \in QueueNames : Dequeue(q)
    \/ \E c \in running : Begin(c)
    \/ \E c \in running : Succeed(c)
    \/ \E c \in running, msg \in ErrorTexts : Raise(c, msg)

Spec == Init /\ [][Next]_vars

\* The pipeline with RQ's job_timeout clock: a call that is in its try body
\* can run into the timeout. For the job row the step is a Raise with the
\* timeout text.
TimeoutNext ==
    \/ Next
    \/ \E c \in running : Timeout(c)

TimeoutSpec == Init /\ [][TimeoutNext]_vars

\* The same pipeline with the workers started as in Start Workers.
PoolInit ==
    /\ jobs \in [Jobs -> {NewJob(t) : t \in RowTypes}]
    /\ Pipeline("per-queue")
    /\ seg = SegIdle
    /\ render = RenderIdle
    /\ RestIdle

PoolSpec == PoolInit /\ [][Next]_vars

\* An rq worker keeps running: it takes the calls off its queues, starts the
\* call it took, and the call's try body either reaches its end or raises
\* (job_timeout bounds its run time).
CallStep(id) ==
    \E c \in running :
        /\ c.id = id
        /\ Begin(c) \/ Succeed(c) \/ \E msg \in ErrorTexts : Raise(c, msg)

FairSpec ==
    /\ Spec
    /\ WF_vars(\E q \in QueueNames : Dequeue(q))
    /\ \A id \in 1..MaxEnqueue : WF_vars(CallStep(id))

\* ------------------------------------------------- segmentation stage
\* SegmentationWorker.process followed statement by statement for one call.
MaxImages == 2
MaxDetections == 2

\* component['name'] values the vision response can carry
Labels == {"leg", "Leg"}

\* OpenAI(api_key=...) is built without max_retries, so the client (openai==1.x)
\* keeps its default: a request that fails with a connection error, a timeout
\* or a 408/409/429/5xx reply is sent again up to this many times before
\* chat.completions.create raises.
OpenAIMaxRetries == 2

SeqsUpTo(S, n) == UNION {[1..m -> S] : m \in 0..n}

\* str.lower() on the labels of the model
Lower(label) == IF label = "Leg" THEN "leg" ELSE label

\* set(...) taken over the lowercased labels
ComponentSet_Lowercased(results) == {Lower(results[i]) : i \in DOMAIN results}

\* set(r['component'] for r in results)
ComponentSet(results) == {results[i] : i \in DOMAIN results}

\* list(s) of a set s: its elements, each once, in the set's iteration order,
\* which Python leaves unspecified.
ListsOf(S) ==
    {l \in [1..Cardinality(S) -> S] : \A x \in S : \E i \in DOMAIN l : l[i] = x}

\* The RQ call that runs SegmentationWorker.process(job 1, input_data).
SegCall ==
    [id |-> 1, job |-> 1, worker_class |-> "SegmentationWorker",
     queue |-> "segmentation", pc |-> "dequeued"]

\* enqueue_job('segment', 1, input) was called and a worker took the call; the
\* upload has up to MaxImages images, and images[i] is the component list the
\* vision model returns for image i when its request succeeds.
SegInit ==
    /\ jobs = [j \in Jobs |-> NewJob("segment")]
    /\ queues = [q \in QueueNames |-> <<>>]
    /\ running = {SegCall}
    /\ now = [j \in Jobs |-> 1]
    /\ enqCount = 1
    /\ enqResult = [job |-> 1, result |-> "queued"]
    /\ history = [j \in Jobs |-> <<>>]
    /\ log = [j \in Jobs |-> <<>>]
    /\ timedOut = {}
    /\ deployment = "per-queue"
    /\ \E imgs \in SeqsUpTo(SeqsUpTo(Labels, MaxDetections), MaxImages) :
          seg = [SegIdle EXCEPT !.pc = "start", !.images = imgs]
    /\ render = RenderIdle
    /\ RestIdle

\* self.update_job_status(job_id, 'processing')
SegBegin ==
    /\ seg.pc = "start"
    /\ StatusWrite(SegCall.job, "processing", None, None)
    /\ running' = {[SegCall EXCEPT !.pc = "work"]}
    /\ seg' = [seg EXCEPT !.pc = "query"]
    /\ UNCHANGED <<queues, enqCount, enqResult, timedOut, deployment, render, restVars>>

\* except Exception as e: self.update_job_status(job_id, 'failed', error=str(e))
SegFail(msg) ==
    /\ StatusWrite(SegCall.job, "failed", None, msg)
    /\ running' = {}
    /\ seg' = [seg EXCEPT !.pc = "done"]
    /\ UNCHANGED <<queues, enqCount, enqResult, timedOut, deployment, render, restVars>>

\* images = ...select('*').eq('upload_id', upload_id).execute();
\* if not images.data: raise ValueError('No images found for upload')
SegQuery ==
    /\ seg.pc = "query"
    /\ IF seg.images = <<>>
       THEN SegFail("No images found for upload")
       ELSE /\ seg' = [seg EXCEPT !.pc = "vision", !.idx = 1, !.attempts = 0]
            /\ UNCHANGED <<jobs, now, history, log, running, queues, enqCount,
                           enqResult, timedOut, deployment, render, restVars>>

\* self.openai.chat.completions.create(...) for image idx: a request is sent
\* and answered; components = json.loads(...).
SegVisionOk ==
    /\ seg.pc = "vision"
    /\ seg' = [seg EXCEPT !.pc = "masks", !.k = 1, !.attempts = @ + 1]
    /\ UNCHANGED <<jobs, now, history, log, running, queues, enqCount,
                   enqResult, timedOut, deployment, render, restVars>>

\* the request fails in a way the client retries, and retries are left: the
\* client sends the request again, create() has not returned.
SegVisionRetry ==
    /\ seg.pc = "vision"
    /\ seg.attempts < OpenAIMaxRetries
    /\ seg' = [seg EXCEPT !.attempts = @ + 1]
    /\ UNCHANGED <<jobs, now, history, log, running, queues, enqCount,
                   enqResult, timedOut, deployment, render, restVars>>

\* the request fails and create() raises (an error the client does not retry,
\* or no retries left); process() catches it.
SegVisionRaise(msg) ==
    /\ seg.pc = "vision"
    /\ seg' = [seg EXCEPT !.pc = "done", !.attempts = @ + 1]
    /\ StatusWrite(SegCall.job, "failed", None, msg)
    /\ running' = {}
    /\ UNCHANGED <<queues, enqCount, enqResult, timedOut, deployment, render, restVars>>

\* for component in components: create the mask, upload it, results.append(...)
SegMask ==
    /\ seg.pc = "masks"
    /\ seg.k <= Len(seg.images[seg.idx])
    /\ seg' = [seg EXCEPT !.results = Append(@, seg.images[seg.idx][seg.k]),
                          !.k = @ + 1]
    /\ UNCHANGED <<jobs, now, history, log, running, queues, enqCount,
                   enqResult, timedOut, deployment, render, restVars>>

\* the inner loop is over: the next img_record, or the end of the outer loop
SegNextImage ==
    /\ seg.pc = "masks"
    /\ seg.k > Len(seg.images[seg.idx])
    /\ seg' = IF seg.idx < Len(seg.images)
              THEN [seg EXCEPT !.pc = "vision", !.idx = @ + 1, !.k = 0,
                               !.attempts = 0]
              ELSE [seg EXCEPT !.pc = "finish"]
    /\ UNCHANGED <<jobs, now, history, log, running, queues, enqCount,
                   enqResult, timedOut, deployment, render, restVars>>

\* a statement of the loop body raises: download_image or json.loads for the
\* image, create_mask_from_bbox or upload_to_storage for component k;
\* process() catches it.
SegRaise(msg) ==
    /\ \/ seg.pc = "vision"
       \/ seg.pc = "masks" /\ seg.k <= Len(seg.images[seg.idx])
    /\ SegFail(msg)

\* output_data = {'masks': results, 'components': list(set(...))};
\* self.update_job_status(job_id, 'completed', output_data)
SegFinish ==
    /\ seg.pc = "finish"
    /\ \E comps \in ListsOf(ComponentSet(seg.results)) :
          seg' = [seg EXCEPT !.pc = "done", !.masks = seg.results,
                             !.components = comps]
    /\ StatusWrite(SegCall.job, "completed", OutputOf("SegmentationWorker"), None)
    /\ running' = {}
    /\ UNCHANGED <<queues, enqCount, enqResult, timedOut, deployment, render, restVars>>

SegNext ==
    \/ SegBegin
    \/ SegQuery
    \/ SegVisionOk
    \/ SegVisionRetry
    \/ \E msg \in ErrorTexts : SegVisionRaise(msg)
    \/ SegMask
    \/ SegNextImage
    \/ \E msg \in ErrorTexts : SegRaise(msg)
    \/ SegFinish

SegSpec == SegInit /\ [][SegNext]_vars

\* ------------------------------------------------------- render stage
\* RenderWorker.process followed statement by statement for one call.
MaxFrames == 3

\* input_data['options'].get('frames', 36)
DefaultFrames == 36

\* The 'frames' option of the input: any count up to MaxFrames, or absent.
FramesInputs == (0..MaxFrames) \cup {DefaultFrames}

\* str(e) of the error .single().execute() raises when the query has no row
ModelNotFoundText == "JSON object requested, multiple (or no) rows returned"

\* str(e) of the CalledProcessError of subprocess.run(..., check=True)
FfmpegErrorText == "Command ffmpeg returned non-zero exit status 1"

\* An angle as a fraction num/den of the full turn 2*pi. This one divides by
\* frames - 1, so that the last frame repeats the first view.
AngleOf_Inclusive(i, frames) == [num |-> i, den |-> frames - 1]

\* angle = (i / frames) * 2 * math.pi
AngleOf(i, frames) == [num |-> i, den |-> frames]

\* 'frame_{:04d}.png'.format(i), and ffmpeg's frame_%04d.png for index i: the
\* decimal digits of i, zero-padded to four (from 10000 on the first place
\* holds the leading digits, the name grows longer).
FrameName(i) == <<i \div 1000, (i \div 100) % 10, (i \div 10) % 10, i % 10>>

\* ffmpeg -i frame_%04d.png reads the files numbered 0, 1, 2, ... up to the
\* first number for which no file exists.
HasFrame(files, n) == \E f \in files : f.name = FrameName(n)
FrameAt(files, n) == (CHOOSE f \in files : f.name = FrameName(n)).angle
FfmpegCount(files) ==
    CHOOSE n \in 0..Cardinality(files) :
        /\ \A m \in 0..(n - 1) : HasFrame(files, m)
        /\ ~HasFrame(files, n)
FfmpegFrames(files) == [n \in 1..FfmpegCount(files) |-> FrameAt(files, n - 1)]

\* The RQ call that runs RenderWorker.process(job 1, input_data).
RenderCall ==
    [id |-> 1, job |-> 1, worker_class |-> "RenderWorker",
     queue |-> "render", pc |-> "dequeued"]

\* enqueue_job('render', 1, input) was called and a worker took the call; the
\* input names a frame count and a model id whose models_3d row exists or not.
RenderInit ==
    /\ jobs = [j \in Jobs |-> NewJob("render")]
    /\ queues = [q \in QueueNames |-> <<>>]
    /\ running = {RenderCall}
    /\ now = [j \in Jobs |-> 1]
    /\ enqCount = 1
    /\ enqResult = [job |-> 1, result |-> "queued"]
    /\ history = [j \in Jobs |-> <<>>]
    /\ log = [j \in Jobs |-> <<>>]
    /\ timedOut = {}
    /\ deployment = "per-queue"
    /\ seg = SegIdle
    /\ RestIdle
    /\ \E f \in FramesInputs, m \in {"absent", "present"} :
          render = [RenderIdle EXCEPT !.pc = "start", !.frames = f, !.model = m]

\* self.update_job_status(job_id, 'processing')
RenderBegin ==
    /\ render.pc = "start"
    /\ StatusWrite(RenderCall.job, "processing", None, None)
    /\ running' = {[RenderCall EXCEPT !.pc = "work"]}
    /\ render' = [render EXCEPT !.pc = "get_model"]
    /\ UNCHANGED <<queues, enqCount, enqResult, timedOut, deployment, seg, restVars>>

\* except Exception as e: self.update_job_status(job_id, 'failed', error=str(e))
RenderFail(r, msg) ==
    /\ StatusWrite(RenderCall.job, "failed", None, msg)
    /\ running' = {}
    /\ render' = [r EXCEPT !.pc = "done"]
    /\ UNCHANGED <<queues, enqCount, enqResult, timedOut, deployment, seg, restVars>>

\* A step of the try body that writes no status.
RenderStep(r) ==
    /\ render' = r
    /\ UNCHANGED <<jobs, now, history, log, running, queues, enqCount,
                   enqResult, timedOut, deployment, seg, restVars>>

\* A lookup that hands on whatever it got, without .single().
RenderGetModel_Unchecked ==
    /\ render.pc = "get_model"
    /\ RenderStep([render EXCEPT !.pc = "download", !.lookup = "found"])

\* model = ...table('models_3d').select('*').eq('id', model_id).single().execute():
\* with no such row .single() raises; glb_url = model.data['glb_url']
RenderGetModel ==
    /\ render.pc = "get_model"
    /\ IF render.model = "absent"
       THEN RenderFail([render EXCEPT !.lookup = "no rows"], ModelNotFoundText)
       ELSE RenderStep([render EXCEPT !.pc = "download", !.lookup = "found"])

\* glb_bytes = self.download_image(glb_url); write model.glb; os.makedirs(frames_dir)
RenderDownload ==
    /\ render.pc = "download"
    /\ RenderStep([render EXCEPT !.pc = "blender", !.i = 0])

\* render_turntable, one pass of `for i in range(frames)`: the camera is put
\* at angle and frame_{i:04d}.png is written.
RenderFrame ==
    /\ render.pc = "blender"
    /\ render.i < render.frames
    /\ RenderStep([render EXCEPT
           !.files = {f \in @ : f.name # FrameName(render.i)}
                       \cup {[name |-> FrameName(render.i),
                              angle |-> AngleOf(render.i, render.frames)]},
           !.i = @ + 1])

\* range(frames) is exhausted, blender exits 0
RenderBlenderDone ==
    /\ render.pc = "blender"
    /\ render.i >= render.frames
    /\ RenderStep([render EXCEPT !.pc = "video"])

\* create_video: ffmpeg -framerate 24 -i frame_%04d.png ... turntable.mp4;
\* with no frame_0000.png ffmpeg exits non-zero and check=True raises.
RenderVideo ==
    /\ render.pc = "video"
    /\ IF FfmpegCount(render.files) = 0
       THEN RenderFail(render, FfmpegErrorText)
       ELSE RenderStep([render EXCEPT !.pc = "gif", !.video = FfmpegFrames(render.files)])

\* create_gif: ffmpeg -framerate 12 -i frame_%04d.png ... turntable.gif
RenderGif ==
    /\ render.pc = "gif"
    /\ IF FfmpegCount(render.files) = 0
       THEN RenderFail(render, FfmpegErrorText)
       ELSE RenderStep([render EXCEPT !.pc = "upload_mp4", !.gif = FfmpegFrames(render.files)])

\* upload_to_storage('renders', f'{model_id}/turntable.mp4' / '.gif', ...)
RenderUpload ==
    \/ /\ render.pc = "upload_mp4"
       /\ RenderStep([render EXCEPT !.pc = "upload_gif", !.uploads = @ \cup {"turntable.mp4"}])
    \/ /\ render.pc = "upload_gif"
       /\ RenderStep([render EXCEPT !.pc = "insert", !.uploads = @ \cup {"turntable.gif"}])

\* self.supabase.table('render_outputs').insert({...}).execute()
RenderInsert ==
    /\ render.pc = "insert"
    /\ RenderStep([render EXCEPT !.pc = "complete", !.outputs = @ + 1])

\* self.update_job_status(job_id, 'completed', output_data)
RenderComplete ==
    /\ render.pc = "complete"
    /\ StatusWrite(RenderCall.job, "completed", OutputOf("RenderWorker"), None)
    /\ running' = {}
    /\ render' = [render EXCEPT !.pc = "done"]
    /\ UNCHANGED <<queues, enqCount, enqResult, timedOut, deployment, seg, restVars>>

\* an external call of the try body raises (the query, the download, blender,
\* ffmpeg, an upload or the insert); process() catches it.
RenderRaise(msg) ==
    /\ render.pc \in {"get_model", "download", "blender", "video", "gif",
                      "upload_mp4", "upload_gif", "insert"}
    /\ RenderFail(render, msg)

RenderNext ==
    \/ RenderBegin
    \/ RenderGetModel
    \/ RenderDownload
    \/ RenderFrame
    \/ RenderBlenderDone
    \/ RenderVideo
    \/ RenderGif
    \/ RenderUpload
    \/ RenderInsert
    \/ RenderComplete
    \/ \E msg \in ErrorTexts : RenderRaise(msg)

RenderSpec == RenderInit /\ [][RenderNext]_vars

\* --------------------------------------------------- mesh generation stage
\* ThreeDWorker.process followed statement by statement for one call.
\* input_data['mode']
MeshModes == {"single_image", "photogrammetry", "nerf", "other"}

\* What meshroom_batch makes of the images: a textured mesh, a mesh with empty
\* or degenerate geometry, or no mesh file at all.
Reconstructions == {"usable", "degenerate", "none"}

\* The RQ call that runs ThreeDWorker.process(job 1, input_data).
MeshCall ==
    [id |-> 1, job |-> 1, worker_class |-> "ThreeDWorker",
     queue |-> "3d", pc |-> "dequeued"]

\* enqueue_job('3d', 1, input) was called and a worker took the call. tool: how
\* meshroom_batch ended; converted: the conversions run; files: the files in
\* tmpdir; uploads: the files put in storage.
MeshInit ==
    /\ jobs = [j \in Jobs |-> NewJob("3d")]
    /\ queues = [q \in QueueNames |-> <<>>]
    /\ running = {MeshCall}
    /\ now = [j \in Jobs |-> 1]
    /\ enqCount = 1
    /\ enqResult = [job |-> 1, result |-> "queued"]
    /\ history = [j \in Jobs |-> <<>>]
    /\ log = [j \in Jobs |-> <<>>]
    /\ timedOut = {}
    /\ deployment = "per-queue"
    /\ seg = SegIdle
    /\ render = RenderIdle
    /\ stain = NotRunning /\ stats = NotRunning /\ edge = NotRunning /\ prompt = NotRunning
    /\ \E m \in MeshModes, r \in Reconstructions, n \in 0..MaxImages :
          mesh = [pc |-> "start", mode |-> m, recon |-> r, images |-> n, i |-> 0,
                  tool |-> "not run", converted |-> {}, files |-> {}, uploads |-> {}]

\* self.update_job_status(job_id, 'processing')
MeshBegin ==
    /\ mesh.pc = "start"
    /\ StatusWrite(MeshCall.job, "processing", None, None)
    /\ running' = {[MeshCall EXCEPT !.pc = "work"]}
    /\ mesh' = [mesh EXCEPT !.pc = "mode"]
    /\ UNCHANGED <<queues, enqCount, enqResult, timedOut, deployment, seg, render,
                   stain, stats, edge, prompt>>

\* except Exception as e: self.update_job_status(job_id, 'failed', error=str(e))
MeshFail(m, msg) ==
    /\ StatusWrite(MeshCall.job, "failed", None, msg)
    /\ running' = {}
    /\ mesh' = [m EXCEPT !.pc = "done"]
    /\ UNCHANGED <<queues, enqCount, enqResult, timedOut, deployment, seg, render,
                   stain, stats, edge, prompt>>

\* A step of the try body that writes no status.
MeshStep(m) ==
    /\ mesh' = m
    /\ UNCHANGED <<jobs, now, history, log, running, queues, enqCount, enqResult,
                   timedOut, deployment, seg, render, stain, stats, edge, prompt>>

\* the if/elif chain on mode. single_image reads images.data[0] and returns the
\* placeholder result; generate_from_nerf is defined nowhere.
MeshMode ==
    /\ mesh.pc = "mode"
    /\ CASE mesh.mode = "single_image" ->
              IF mesh.images = 0 THEN MeshFail(mesh, "list index out of range")
              ELSE MeshStep([mesh EXCEPT !.pc = "complete"])
         [] mesh.mode = "photogrammetry" -> MeshStep([mesh EXCEPT !.pc = "download"])
         [] mesh.mode = "nerf" ->
               MeshFail(mesh, "'ThreeDWorker' object has no attribute 'generate_from_nerf'")
         [] OTHER -> MeshFail(mesh, "Unknown mode")

\* for i, img_record in enumerate(images.data): download and write img_{i:04d}.jpg
MeshDownload ==
    /\ mesh.pc = "download"
    /\ IF mesh.i < mesh.images
       THEN MeshStep([mesh EXCEPT !.i = @ + 1])
       ELSE MeshStep([mesh EXCEPT !.pc = "meshroom"])

\* subprocess.run(['meshroom_batch', ...], check=True): the tool exits 0 and
\* has written texturedMesh.obj, unless it made no mesh.
MeshroomExits0 ==
    /\ mesh.pc = "meshroom"
    /\ MeshStep([mesh EXCEPT !.pc = "to_glb", !.tool = "exit 0",
                             !.files = IF mesh.recon = "none" THEN @
                                       ELSE @ \cup {"texturedMesh.obj"}])

\* meshroom_batch exits non-zero, check=True raises CalledProcessError
MeshroomFails ==
    /\ mesh.pc = "meshroom"
    /\ MeshFail([mesh EXCEPT !.tool = "exit 1"], "Command returned non-zero exit status 1")

\* convert_to_glb(mesh_path, tmpdir): blender imports texturedMesh.obj and
\* exports output.glb; blender is run whatever meshroom left, and without the
\* .obj file its script stops before the export.
MeshConvertGlb ==
    /\ mesh.pc = "to_glb"
    /\ MeshStep([mesh EXCEPT !.pc = "upload_glb", !.converted = @ \cup {"glb"},
                             !.files = IF "texturedMesh.obj" \in mesh.files
                                       THEN @ \cup {"output.glb"} ELSE @])

\* convert_to_glb: blender exits non-zero, check=True raises CalledProcessError
MeshConvertGlbFails ==
    /\ mesh.pc = "to_glb"
    /\ MeshFail([mesh EXCEPT !.converted = @ \cup {"glb"}], "Command returned non-zero exit status 1")

\* with open(glb_path, 'rb') as f: upload_to_storage('models', .../model.glb)
MeshUploadGlb ==
    /\ mesh.pc = "upload_glb"
    /\ IF "output.glb" \in mesh.files
       THEN MeshStep([mesh EXCEPT !.pc = "to_usdz", !.uploads = @ \cup {"model.glb"}])
       ELSE MeshFail(mesh, "[Errno 2] No such file or directory")

\* convert_to_usdz(glb_path, tmpdir): usd_from_gltf output.glb output.usdz
MeshConvertUsdz ==
    /\ mesh.pc = "to_usdz"
    /\ MeshStep([mesh EXCEPT !.pc = "upload_usdz", !.converted = @ \cup {"usdz"},
                             !.files = @ \cup {"output.usdz"}])

\* with open(usdz_path, 'rb') as f: upload_to_storage('models', .../model.usdz)
MeshUploadUsdz ==
    /\ mesh.pc = "upload_usdz"
    /\ MeshStep([mesh EXCEPT !.pc = "complete", !.uploads = @ \cup {"model.usdz"}])

\* self.update_job_status(job_id, 'completed', result)
MeshComplete ==
    /\ mesh.pc = "complete"
    /\ StatusWrite(MeshCall.job, "completed", OutputOf("ThreeDWorker"), None)
    /\ running' = {}
    /\ mesh' = [mesh EXCEPT !.pc = "done"]
    /\ UNCHANGED <<queues, enqCount, enqResult, timedOut, deployment, seg, render,
                   stain, stats, edge, prompt>>

\* another external call of the try body raises (the query, a download,
\* usd_from_gltf, an upload); process() catches it.
MeshRaise(msg) ==
    /\ mesh.pc \in {"download", "upload_glb", "to_usdz", "upload_usdz"}
    /\ MeshFail(mesh, msg)

MeshNext ==
    \/ MeshBegin
    \/ MeshMode
    \/ MeshDownload
    \/ MeshroomExits0
    \/ MeshroomFails
    \/ MeshConvertGlb
    \/ MeshConvertGlbFails
    \/ MeshUploadGlb
    \/ MeshConvertUsdz
    \/ MeshUploadUsdz
    \/ MeshComplete
    \/ \E msg \in ErrorTexts : MeshRaise(msg)

MeshSpec == MeshInit /\ [][MeshNext]_vars

\* ------------------------------------------------- stain colour arithmetic
\* recolor_wood and apply_grain on one pixel. The values are the 8-bit LAB
\* channels cv2.cvtColor(..., COLOR_RGB2LAB) yields and the RGB channel handed
\* to apply_grain; preserveGrain and strength are the fractions k / Steps.
Steps == 2

ChannelSamples == {0, 100, 101, 255}

\* np.clip(x, 0, 255)
Clip(x) == IF x < 0 THEN 0 ELSE IF x > 255 THEN 255 ELSE x

\* A transfer that weights the target by preserve and the source by 1 - preserve.
Blend_Swapped(src, tgt, k) == Clip((tgt * k + src * (Steps - k)) \div Steps)

\* lab[:, :, c] * preserve + target_lab[c] * (1 - preserve), then
\* np.clip(...).astype(np.uint8), which cuts the fraction off
Blend(src, tgt, k) == Clip((src * k + tgt * (Steps - k)) \div Steps)

\* recolor_wood up to the array handed to COLOR_LAB2RGB: channel 0 is only
\* clipped and cast, channels 1 and 2 are blended
recolor_wood(lab, target_lab, k) ==
    [L |-> Clip(lab.L), a |-> Blend(lab.a, target_lab.a, k),
     b |-> Blend(lab.b, target_lab.b, k)]

\* cvRound of n / d: to the nearest integer, halves to the even one
RoundHalfEven(n, d) ==
    LET q == n \div d
        r == n % d
    IN  IF 2 * r < d THEN q
        ELSE IF 2 * r > d THEN q + 1
        ELSE IF q % 2 = 0 THEN q ELSE q + 1

\* cv2.addWeighted(colored, 1.0, grain_3ch, strength, 0) on uint8, saturated
apply_grain(colored, grain, k) == Clip(RoundHalfEven(colored * Steps + grain * k, Steps))

\* The application outside the stage followed: the pipeline at rest.
AtRest ==
    /\ jobs = [j \in Jobs |-> NewJob("stain")]
    /\ Pipeline("per-queue")
    /\ seg = SegIdle
    /\ render = RenderIdle

\* One pixel of a stain job: its albedo in LAB, the target colour in LAB, its
\* grain residual, the recoloured RGB channel, and the job's two options.
ColorInit ==
    /\ AtRest
    /\ mesh = NotRunning /\ stats = NotRunning /\ edge = NotRunning /\ prompt = NotRunning
    /\ \E l \in {0, 255}, a \in ChannelSamples, b \in {100, 255},
          ta \in ChannelSamples, tb \in {0, 101},
          g \in {0, 3, 255}, c \in {0, 200, 255}, p \in (0..Steps), st \in (0..Steps) :
          stain = [pc |-> "pixel", lab |-> [L |-> l, a |-> a, b |-> b],
                   target_lab |-> [L |-> 128, a |-> ta, b |-> tb],
                   grain |-> g, colored |-> c, preserve |-> p, strength |-> st,
                   out_lab |-> [L |-> 0, a |-> 0, b |-> 0], final |-> 0]

\* colored_albedo = self.recolor_wood(albedo, target_rgb, preserve_grain)
ColorRecolor ==
    /\ stain.pc = "pixel"
    /\ stain' = [stain EXCEPT !.pc = "recolored",
                     !.out_lab = recolor_wood(stain.lab, stain.target_lab, stain.preserve)]
    /\ UNCHANGED <<jobs, queues, running, now, enqCount, enqResult, history, log,
                   timedOut, deployment, seg, render, mesh, stats, edge, prompt>>

\* final_albedo = self.apply_grain(colored_albedo, grain, preserve_grain)
ColorApplyGrain ==
    /\ stain.pc = "recolored"
    /\ stain' = [stain EXCEPT !.pc = "grained",
                     !.final = apply_grain(stain.colored, stain.grain, stain.preserve)]
    /\ UNCHANGED <<jobs, queues, running, now, enqCount, enqResult, history, log,
                   timedOut, deployment, seg, render, mesh, stats, edge, prompt>>

ColorNext ==
    \/ ColorRecolor
    \/ ColorApplyGrain

ColorSpec == ColorInit /\ [][ColorNext]_vars

\* ------------------------------------------------------------ stain stage
\* StainWorker.process on the upload up1 of user u1, run by job 1 and then
\* again by job 2. The first image's img.size is <<width, height>>.
MaxSide == 2


\* np.array(img).shape[:2]: (height, width)
np_array(size) == <<size[2], size[1]>>

\* Image.fromarray(arr).size: (arr.shape[1], arr.shape[0])
fromarray(shape) == <<shape[2], shape[1]>>

\* The shape of each array process() uploads, from the shape of img_array:
\* every helper is a per-pixel operation or a same-size filter (cvtColor,
\* GaussianBlur, subtract, addWeighted, Sobel, dstack, blur, normalize).
MapShape(name, shape) == shape

\* A bundle uploaded without its preview.
TextureMaps_NoPreview == <<"albedo", "normal", "roughness", "ao">>

\* the maps in the order process() uploads them
TextureMaps == <<"albedo", "normal", "roughness", "ao", "preview">>

\* f"{user_id}/{upload_id}_stained/{name}.png": the job id is no part of it
TexturePath(user_id, upload_id, name) == <<user_id, upload_id, "stained", name>>


NoFile == [job |-> 0, size |-> <<0, 0>>]

StainCall(j) ==
    [id |-> j, job |-> j, worker_class |-> "StainWorker",
     queue |-> "stain", pc |-> "dequeued"]

\* enqueue_job('stain', 1, input) was called and a worker took the call.
\* images: the image rows of the upload; size: the first image's size;
\* shape: img_array's shape; done: the maps this job uploaded; storage: the
\* 'images' bucket; textures: the rows of the textures table.
StainInit ==
    /\ jobs = [j \in Jobs |-> NewJob("stain")]
    /\ queues = [q \in QueueNames |-> <<>>]
    /\ running = {StainCall(1)}
    /\ now = [j \in Jobs |-> 1]
    /\ enqCount = 1
    /\ enqResult = [job |-> 1, result |-> "queued"]
    /\ history = [j \in Jobs |-> <<>>]
    /\ log = [j \in Jobs |-> <<>>]
    /\ timedOut = {}
    /\ deployment = "per-queue"
    /\ seg = SegIdle
    /\ render = RenderIdle
    /\ mesh = NotRunning /\ stats = NotRunning /\ edge = NotRunning /\ prompt = NotRunning
    /\ \E n \in 0..1, sz \in ((1..MaxSide) \X (1..MaxSide)) :
          stain = [pc |-> "start", job |-> 1, images |-> n, size |-> sz,
                   shape |-> <<0, 0>>, done |-> {},
                   storage |-> [p \in {TexturePath("u1", "up1", TextureMaps[i]) :
                                          i \in DOMAIN TextureMaps} |-> NoFile],
                   textures |-> {}]

\* self.update_job_status(job_id, 'processing')
StainBegin ==
    /\ stain.pc = "start"
    /\ StatusWrite(stain.job, "processing", None, None)
    /\ running' = {[StainCall(stain.job) EXCEPT !.pc = "work"]}
    /\ stain' = [stain EXCEPT !.pc = "query"]
    /\ UNCHANGED <<queues, enqCount, enqResult, timedOut, deployment, seg, render,
                   mesh, stats, edge, prompt>>

\* except Exception as e: self.update_job_status(job_id, 'failed', error=str(e))
StainFail(msg) ==
    /\ StatusWrite(stain.job, "failed", None, msg)
    /\ running' = {}
    /\ stain' = [stain EXCEPT !.pc = "done"]
    /\ UNCHANGED <<queues, enqCount, enqResult, timedOut, deployment, seg, render,
                   mesh, stats, edge, prompt>>

\* A step of the try body that writes no status.
StainStep(st) ==
    /\ stain' = st
    /\ UNCHANGED <<jobs, now, history, log, running, queues, enqCount, enqResult,
                   timedOut, deployment, seg, render, mesh, stats, edge, prompt>>

\* images = ...eq('upload_id', upload_id).execute();
\* if not images.data: raise ValueError('No images found')
StainQuery ==
    /\ stain.pc = "query"
    /\ IF stain.images = 0
       THEN StainFail("No images found")
       ELSE StainStep([stain EXCEPT !.pc = "download"])

\* download_image, Image.open(...).convert('RGB'), np.array(img), steps 1-5
StainCompute ==
    /\ stain.pc = "download"
    /\ StainStep([stain EXCEPT !.pc = "upload", !.shape = np_array(stain.size)])


\* upload_texture(arr, f"{user_id}/{texture_id}/{name}.png"): upload() is sent
\* without upsert, so storage refuses a path that already holds an object
StainUpload ==
    /\ stain.pc = "upload"
    /\ Cardinality(stain.done) < Len(TextureMaps)
    /\ LET name == TextureMaps[Cardinality(stain.done) + 1]
           path == TexturePath("u1", "up1", name)
       IN  IF stain.storage[path] # NoFile
           THEN StainFail("Duplicate")
           ELSE StainStep([stain EXCEPT
                    !.done = @ \cup {name},
                    !.storage[path] = [job |-> stain.job,
                                       size |-> fromarray(MapShape(name, stain.shape))]])

\* self.supabase.table('textures').insert({...}).execute()
StainInsert ==
    /\ stain.pc = "upload"
    /\ Cardinality(stain.done) = Len(TextureMaps)
    /\ StainStep([stain EXCEPT !.pc = "complete",
           !.textures = @ \cup {[job |-> stain.job,
                                 urls |-> [n \in stain.done |->
                                             TexturePath("u1", "up1", n)]]}])

\* self.update_job_status(job_id, 'completed', output_data)
StainComplete ==
    /\ stain.pc = "complete"
    /\ StatusWrite(stain.job, "completed", OutputOf("StainWorker"), None)
    /\ running' = {}
    /\ stain' = [stain EXCEPT !.pc = "done"]
    /\ UNCHANGED <<queues, enqCount, enqResult, timedOut, deployment, seg, render,
                   mesh, stats, edge, prompt>>

\* an external call of the try body raises (the query, the download, an
\* upload, the insert); process() catches it.
StainRaise(msg) ==
    /\ stain.pc \in {"query", "download", "upload"}
    /\ StainFail(msg)

\* A second stain job on the same upload is enqueued and taken by a worker.
StainAgain ==
    /\ stain.pc = "done"
    /\ stain.job = 1
    /\ running' = {StainCall(2)}
    /\ enqCount' = enqCount + 1
    /\ enqResult' = [job |-> 2, result |-> "queued"]
    /\ stain' = [stain EXCEPT !.pc = "start", !.job = 2, !.shape = <<0, 0>>, !.done = {}]
    /\ UNCHANGED <<jobs, queues, now, history, log, timedOut, deployment, seg, render,
                   mesh, stats, edge, prompt>>

StainNext ==
    \/ StainBegin
    \/ StainQuery
    \/ StainCompute
    \/ StainUpload
    \/ StainInsert
    \/ StainComplete
    \/ \E msg \in ErrorTexts : StainRaise(msg)
    \/ StainAgain

StainSpec == StainInit /\ [][StainNext]_vars

\* ------------------------------------------------- processing statistics
\* The triggers of the statistics migration, run by concurrent database
\* sessions. Every statement is its own transaction: it locks the rows it
\* writes until it commits or rolls back.
MaxStatements == 3

Sessions == {"s1", "s2"}
Users == {"u1", "u2"}
OpIds == {"op1", "op2"}
OperationTypes == {"resize", "bg-remove"}
SqlNull == "NULL"

\* status text DEFAULT 'pending' CHECK (status IN (...)): no NOT NULL
OpStatuses == {"pending", "processing", "completed", "failed", SqlNull}

\* SQL's = and != on a nullable text, and AND
SqlEq(a, b) == IF a = SqlNull \/ b = SqlNull THEN "unknown"
               ELSE IF a = b THEN "true" ELSE "false"
SqlNe(a, b) == IF a = SqlNull \/ b = SqlNull THEN "unknown"
               ELSE IF a # b THEN "true" ELSE "false"
SqlAnd(x, y) == IF x = "false" \/ y = "false" THEN "false"
                ELSE IF x = "true" /\ y = "true" THEN "true" ELSE "unknown"

\* IF NEW.status = 'completed' AND OLD.status != 'completed' THEN: taken
\* when the condition is true, not when it is false or NULL
TriggerFires(old, new) ==
    SqlAnd(SqlEq(new.status, "completed"), SqlNe(old.status, "completed")) = "true"

\* no processing_statistics row for the user
NoStats == [present |-> FALSE, total_images_uploaded |-> 0,
            total_images_processed |-> 0, operation_counts |-> <<>>]

\* jsonb_set(counts, ARRAY[type], to_jsonb(v)): sets the key, creating it
jsonb_set(counts, type, v) ==
    [k \in DOMAIN counts \cup {type} |-> IF k = type THEN v ELSE counts[k]]

\* An upsert that counts the total and leaves operation_counts alone.
ProcessingUpsert_TotalOnly(row, type) ==
    IF ~row.present
    THEN [present |-> TRUE, total_images_uploaded |-> 0,
          total_images_processed |-> 1, operation_counts |-> <<>>]
    ELSE [row EXCEPT !.total_images_processed = @ + 1]

\* INSERT INTO processing_statistics (user_id, total_images_processed,
\* operation_counts) VALUES (NEW.user_id, 1, jsonb_build_object(type, 1))
\* ON CONFLICT (user_id) DO UPDATE SET ..., with
\* COALESCE((operation_counts->>type)::integer, 0) + 1 for the type's key
ProcessingUpsert(row, type) ==
    IF ~row.present
    THEN [present |-> TRUE, total_images_uploaded |-> 0,
          total_images_processed |-> 1, operation_counts |-> jsonb_set(<<>>, type, 1)]
    ELSE [row EXCEPT !.total_images_processed = @ + 1,
                     !.operation_counts =
                         jsonb_set(@, type, (IF type \in DOMAIN @ THEN @[type] ELSE 0) + 1)]

\* INSERT INTO processing_statistics (user_id, total_images_uploaded)
\* VALUES (NEW.user_id, 1) ON CONFLICT (user_id) DO UPDATE SET ...
UploadUpsert(row) ==
    IF ~row.present
    THEN [present |-> TRUE, total_images_uploaded |-> 1,
          total_images_processed |-> 0, operation_counts |-> <<>>]
    ELSE [row EXCEPT !.total_images_uploaded = @ + 1]

SessionIdle == [pc |-> "idle", kind |-> "none", op |-> "none", user |-> "none",
                old |-> "none", new |-> "none", lock |-> "none", undo |-> NoStats]

\* ops: the image_processing_operations rows; rows: user -> the user's
\* processing_statistics row; sess: what each session's statement has done;
\* images: user -> image rows committed; credited: user -> committed updates
\* that took a row from a status other than 'completed' to 'completed';
\* statements: statements started.
StatsInit ==
    /\ AtRest
    /\ mesh = NotRunning /\ stain = NotRunning /\ edge = NotRunning /\ prompt = NotRunning
    /\ \E s1 \in {"pending", "completed", SqlNull}, s2 \in {"pending", "processing"},
          u2 \in Users, t2 \in OperationTypes :
          stats = [pc |-> "db",
                   ops |-> [o \in OpIds |->
                              IF o = "op1"
                              THEN [user_id |-> "u1", operation_type |-> "resize",
                                    status |-> s1]
                              ELSE [user_id |-> u2, operation_type |-> t2,
                                    status |-> s2]],
                   rows |-> [u \in Users |-> NoStats],
                   sess |-> [s \in Sessions |-> SessionIdle],
                   images |-> [u \in Users |-> 0],
                   credited |-> [u \in Users |-> 0],
                   statements |-> 0]

StatsStep(st) ==
    /\ stats' = st
    /\ UNCHANGED <<jobs, queues, running, now, enqCount, enqResult, history, log,
                   timedOut, deployment, seg, render, mesh, stain, edge, prompt>>

OpLocked(o) == \E s \in Sessions : stats.sess[s].kind = "op" /\ stats.sess[s].op = o
StatsLocked(u) == \E s \in Sessions : stats.sess[s].lock = u

\* UPDATE image_processing_operations SET status = st WHERE id = o: the
\* session locks the row (waiting for a statement that holds it) and writes it
OpUpdate(s, o, st) ==
    /\ stats.pc = "db"
    /\ stats.sess[s].pc = "idle"
    /\ stats.statements < MaxStatements
    /\ ~OpLocked(o)
    /\ StatsStep([stats EXCEPT
           !.statements = @ + 1,
           !.ops[o].status = st,
           !.sess[s] = [SessionIdle EXCEPT !.pc = "row written", !.kind = "op",
                            !.op = o, !.user = stats.ops[o].user_id,
                            !.old = stats.ops[o].status, !.new = st]])

\* AFTER UPDATE ... FOR EACH ROW EXECUTE FUNCTION update_processing_statistics()
OpTrigger(s) ==
    LET ss == stats.sess[s]
        u == ss.user
    IN
    /\ stats.pc = "db"
    /\ ss.pc = "row written" /\ ss.kind = "op"
    /\ IF TriggerFires([status |-> ss.old], [status |-> ss.new])
       THEN /\ ~StatsLocked(u)
            /\ StatsStep([stats EXCEPT
                   !.rows[u] = ProcessingUpsert(@, stats.ops[ss.op].operation_type),
                   !.sess[s] = [ss EXCEPT !.pc = "trigger done", !.lock = u,
                                          !.undo = stats.rows[u]]])
       ELSE StatsStep([stats EXCEPT !.sess[s].pc = "trigger done"])

\* INSERT INTO images (user_id, ...) with its AFTER INSERT trigger
\* update_upload_statistics()
ImageInsert(s, u) ==
    /\ stats.pc = "db"
    /\ stats.sess[s].pc = "idle"
    /\ stats.statements < MaxStatements
    /\ ~StatsLocked(u)
    /\ StatsStep([stats EXCEPT
           !.statements = @ + 1,
           !.rows[u] = UploadUpsert(@),
           !.sess[s] = [SessionIdle EXCEPT !.pc = "trigger done", !.kind = "image",
                            !.user = u, !.lock = u, !.undo = stats.rows[u]]])

\* the statement's transaction commits: its locks are released
Commit(s) ==
    LET ss == stats.sess[s] IN
    /\ stats.pc = "db"
    /\ ss.pc = "trigger done"
    /\ StatsStep([stats EXCEPT
           !.sess[s] = SessionIdle,
           !.images[ss.user] = IF ss.kind = "image" THEN @ + 1 ELSE @,
           !.credited[ss.user] =
               IF ss.kind = "op" /\ ss.new = "completed" /\ ss.old # "completed"
               THEN @ + 1 ELSE @])

\* the statement fails or its connection is lost: everything it wrote is
\* rolled back
Rollback(s) ==
    LET ss == stats.sess[s] IN
    /\ stats.pc = "db"
    /\ ss.pc \in {"row written", "trigger done"}
    /\ StatsStep([stats EXCEPT
           !.sess[s] = SessionIdle,
           !.ops = IF ss.kind = "op" THEN [@ EXCEPT ![ss.op].status = ss.old] ELSE @,
           !.rows = IF ss.lock # "none" THEN [@ EXCEPT ![ss.lock] = ss.undo] ELSE @])

StatsNext ==
    \/ \E s \in Sessions, o \in OpIds, st \in OpStatuses : OpUpdate(s, o, st)
    \/ \E s \in Sessions : OpTrigger(s)
    \/ \E s \in Sessions, u \in Users : ImageInsert(s, u)
    \/ \E s \in Sessions : Commit(s)
    \/ \E s \in Sessions : Rollback(s)

StatsSpec == StatsInit /\ [][StatsNext]_vars

\* ------------------------------------------------ image-processing function
\* One request to the edge function. "" is a missing (falsy) field.
ImageIds == {"", "img1", "img9"}

\* the ids that have a row in the images table
StoredImages == {"img1"}

Operations == {"", "bg-remove", "remove-bg", "resize", "crop"}


\* if (operation === "remove-bg") "no-bg" else if (operation === "resize")
\* "resized" else operation
OpSuffix(operation) ==
    IF operation = "remove-bg" THEN "no-bg"
    ELSE IF operation = "resize" THEN "resized"
    ELSE operation


\* req: the request body; key: REMOVE_BG_API_KEY is set; cloud: the three
\* Cloudinary variables are set; calls: the external APIs called; stored: the
\* result is in storage; row: processing_status of the image's row (of
\* StoredImages); written: the images update changed a row; response: the
\* response returned.
EdgeInit ==
    /\ AtRest
    /\ mesh = NotRunning /\ stain = NotRunning /\ stats = NotRunning /\ prompt = NotRunning
    /\ \E id \in ImageIds, url \in {"", "https://x/a.jpg"}, op \in Operations,
          k \in BOOLEAN, c \in BOOLEAN :
          edge = [pc |-> "start",
                  req |-> [imageId |-> id, imageUrl |-> url, operation |-> op],
                  key |-> k, cloud |-> c, suffix |-> "", calls |-> {},
                  stored |-> FALSE, row |-> "pending", written |-> FALSE,
                  cloudUrl |-> FALSE,
                  response |-> [status |-> 0, success |-> FALSE, error |-> "none"]]

EdgeStep(e) ==
    /\ edge' = e
    /\ UNCHANGED <<jobs, queues, running, now, enqCount, enqResult, history, log,
                   timedOut, deployment, seg, render, mesh, stain, stats, prompt>>

\* catch (error): new Response(JSON.stringify({ error: error.message }),
\* { status: 500 })
EdgeError(e, msg) ==
    EdgeStep([e EXCEPT !.pc = "done",
                       !.response = [status |-> 500, success |-> FALSE, error |-> msg]])

\* if (!imageId || !imageUrl || !operation) throw
EdgeValidate ==
    /\ edge.pc = "start"
    /\ IF edge.req.imageId = "" \/ edge.req.imageUrl = "" \/ edge.req.operation = ""
       THEN EdgeError(edge, "Missing required fields:imageId,imageUrl, or operation")
       ELSE EdgeStep([edge EXCEPT !.pc = "name"])

\* opSuffix, finalPublicId, finalFileName
EdgeName ==
    /\ edge.pc = "name"
    /\ EdgeStep([edge EXCEPT !.pc = "dispatch", !.suffix = OpSuffix(edge.req.operation)])

\* if (operation === "bg-remove") { ... } else throw "not supported"
EdgeDispatch ==
    /\ edge.pc = "dispatch"
    /\ IF edge.req.operation = "bg-remove"
       THEN IF edge.key
            THEN EdgeStep([edge EXCEPT !.pc = "fetch"])
            ELSE EdgeError(edge, "Remove  BG API KEY missing!")
       ELSE EdgeError(edge, "Operation not supported!")

\* fetch("https://api.remove.bg/v1.0/removebg") answers ok
EdgeRemoveBgOk ==
    /\ edge.pc = "fetch"
    /\ EdgeStep([edge EXCEPT !.pc = "upload", !.calls = @ \cup {"remove.bg"}])

\* the fetch throws, or !apiRes.ok
EdgeRemoveBgFails(msg) ==
    /\ edge.pc = "fetch"
    /\ EdgeError([edge EXCEPT !.calls = @ \cup {"remove.bg"}], msg)

\* storage.from("images").upload(filePath, arrayBuffer, { upsert: true })
EdgeUploadOk ==
    /\ edge.pc = "upload"
    /\ EdgeStep([edge EXCEPT !.pc = "cloudinary", !.stored = TRUE])

\* if (uploadError) throw uploadError
EdgeUploadFails ==
    /\ edge.pc = "upload"
    /\ EdgeError(edge, "upload error")

\* if (CLOUD_NAME && API_KEY && API_SECRET) { ... }: absent, the branch is
\* skipped; a Cloudinary error answer is only logged
EdgeCloudinary(ok) ==
    /\ edge.pc = "cloudinary"
    /\ IF edge.cloud
       THEN EdgeStep([edge EXCEPT !.pc = "update", !.calls = @ \cup {"cloudinary"},
                                  !.cloudUrl = ok])
       ELSE /\ ok = FALSE
            /\ EdgeStep([edge EXCEPT !.pc = "update"])

\* the Cloudinary fetch or cloudRes.json() throws
EdgeCloudinaryThrows ==
    /\ edge.pc = "cloudinary"
    /\ edge.cloud
    /\ EdgeError([edge EXCEPT !.calls = @ \cup {"cloudinary"}], "fetch failed")

\* await supabaseAdmin.from("images").update({...}).eq("id", imageId): the
\* result is not looked at. failed: the statement ended with an error.
EdgeUpdate(failed) ==
    /\ edge.pc = "update"
    /\ IF ~failed /\ edge.req.imageId \in StoredImages
       THEN EdgeStep([edge EXCEPT !.pc = "respond", !.row = "completed",
                                  !.written = TRUE])
       ELSE EdgeStep([edge EXCEPT !.pc = "respond"])

\* return new Response(JSON.stringify({ success: true, url, name }))
EdgeRespond ==
    /\ edge.pc = "respond"
    /\ EdgeStep([edge EXCEPT !.pc = "done",
                    !.response = [status |-> 200, success |-> TRUE, error |-> "none"]])

EdgeNext ==
    \/ EdgeValidate
    \/ EdgeName
    \/ EdgeDispatch
    \/ EdgeRemoveBgOk
    \/ \E msg \in {"Remove BG API failed", "fetch failed"} : EdgeRemoveBgFails(msg)
    \/ EdgeUploadOk
    \/ EdgeUploadFails
    \/ \E ok \in BOOLEAN : EdgeCloudinary(ok)
    \/ EdgeCloudinaryThrows
    \/ \E failed \in BOOLEAN : EdgeUpdate(failed)
    \/ EdgeRespond

EdgeSpec == EdgeInit /\ [][EdgeNext]_vars

\* ------------------------------------------------------- saved AI prompts
\* One ai_prompts row used from the AIPromptOptimization component open in
\* several browser sessions.
MaxUses == 3

Browsers == {"b1", "b2"}

\* count: the row's usage_count; initial: its value at the start; uses: the
\* uses that went through (update applied, 'AI processing started' shown);
\* view: per browser, cached: usage_count of the prompt object in the
\* component's state, selected: selectedImages.length, pc: where its
\* handleUsePrompt call is, value: the usage_count its update carries,
\* alert: the last alert shown.
PromptInit ==
    /\ AtRest
    /\ mesh = NotRunning /\ stain = NotRunning /\ stats = NotRunning /\ edge = NotRunning
    /\ \E c \in 0..1, sel \in [Browsers -> 0..1] :
          prompt = [pc |-> "open", count |-> c, initial |-> c, uses |-> 0,
                    view |-> [b \in Browsers |->
                                [cached |-> c, selected |-> sel[b], pc |-> "idle",
                                 value |-> 0, alert |-> "none"]]]

PromptStep(p) ==
    /\ prompt' = p
    /\ UNCHANGED <<jobs, queues, running, now, enqCount, enqResult, history, log,
                   timedOut, deployment, seg, render, mesh, stain, stats, edge>>

\* fetchPrompts(): setPrompts(userPrompts.data), on mount or reload
FetchPrompts(b) ==
    /\ prompt.pc = "open"
    /\ prompt.view[b].pc = "idle"
    /\ prompt.view[b].cached # prompt.count
    /\ PromptStep([prompt EXCEPT !.view[b].cached = prompt.count])

\* if (selectedImages.length === 0) { alert(...); return; }
UseWithoutImage(b) ==
    /\ prompt.pc = "open"
    /\ prompt.view[b].pc = "idle"
    /\ prompt.view[b].selected = 0
    /\ PromptStep([prompt EXCEPT !.view[b].alert = "select an image"])

\* supabase.from('ai_prompts').update({ usage_count: prompt.usage_count + 1 })
\* .eq('id', prompt.id) is sent
UseSend(b) ==
    /\ prompt.pc = "open"
    /\ prompt.view[b].pc = "idle"
    /\ prompt.view[b].selected > 0
    /\ prompt.uses + Cardinality({x \in Browsers : prompt.view[x].pc = "sent"}) < MaxUses
    /\ PromptStep([prompt EXCEPT !.view[b].pc = "sent",
                                 !.view[b].value = prompt.view[b].cached + 1])

\* the database applies the update; alert('AI processing started...')
UseApplied(b) ==
    /\ prompt.pc = "open"
    /\ prompt.view[b].pc = "sent"
    /\ PromptStep([prompt EXCEPT !.count = prompt.view[b].value,
                                 !.uses = @ + 1,
                                 !.view[b].pc = "refetch",
                                 !.view[b].alert = "started"])

\* fetchPrompts() at the end of handleUsePrompt
UseRefetch(b) ==
    /\ prompt.pc = "open"
    /\ prompt.view[b].pc = "refetch"
    /\ PromptStep([prompt EXCEPT !.view[b].pc = "idle",
                                 !.view[b].cached = prompt.count])

PromptNext ==
    \/ \E b \in Browsers : FetchPrompts(b)
    \/ \E b \in Browsers : UseWithoutImage(b)
    \/ \E b \in Browsers : UseSend(b)
    \/ \E b \in Browsers : UseApplied(b)
    \/ \E b \in Browsers : UseRefetch(b)

PromptSpec == PromptInit /\ [][PromptNext]_vars

\* ---------------------------------------------------------------- claims
\* Helpers to read the state.
Processing(c, j) == c \in running /\ c.pc = "work" /\ c.job = j
WritesOf(j, S) == {i \in DOMAIN history[j] : history[j][i][1] \in S}
\* the running call c makes its 'processing' write / ends in this step
BeginStep(c) == c.pc = "dequeued" /\ c \notin running'
EndStep(c) == c.pc = "work" /\ c \notin running'

\* C1: of two workers that both attempt to claim the same pending job, only
\* one succeeds: a claim is made on a pending job only, and in no reachable
\* state are two workers processing the same job.
C1_SingleClaim ==
    /\ [][\A c \in running :
            BeginStep(c) => jobs[c.job].status = "pending"]_vars
    /\ [](\A c1, c2 \in running, j \in Jobs :
            Processing(c1, j) /\ Processing(c2, j) => c1 = c2)

\* C2: completed and failed are terminal (once a job's status is completed or
\* failed it never changes again), and a job starts in pending.
C2_TerminalIsFinal ==
    /\ \A j \in Jobs : jobs[j].status = "pending"
    /\ [][\A j \in Jobs :
            jobs[j].status \in Terminal => jobs'[j].status = jobs[j].status]_vars

\* C3: a transition to processing attempted on a job that is not pending is
\* rejected and leaves the job's status, timestamps, output and error as
\* they were.
C3_ProcessingOnlyFromPending ==
    [][\A c \in running :
         BeginStep(c) /\ jobs[c.job].status # "pending"
            => jobs'[c.job] = jobs[c.job]]_vars

\* C4: while pending or processing a job has neither output nor error; when
\* completed it has an output and no error; when failed it has an error and
\* no output.
C4_OutputErrorExclusive ==
    \A j \in Jobs :
        LET r == jobs[j] IN
        /\ r.status \in {"pending", "processing"}
              => r.output_data = Null /\ r.error_message = Null
        /\ r.status = "completed"
              => r.output_data # Null /\ r.error_message = Null
        /\ r.status = "failed"
              => r.error_message # Null /\ r.output_data = Null

\* C5: a transition to failed is accepted from pending and processing and
\* rejected from completed and failed, and every failed job carries a
\* non-empty error text, also when the raised exception's message is empty.
C5_FailedHasError ==
    /\ [](\A j \in Jobs :
            jobs[j].status = "failed" => jobs[j].error_message \notin {Null, EmptyStr})
    /\ [][\A j \in Jobs :
            jobs[j].status \in Terminal /\ jobs'[j] # jobs[j]
               => jobs'[j].status # "failed"]_vars

\* C6: a transition to completed succeeds only from processing and with a
\* non-null output: a job becomes (or is again written as) completed only if
\* it was processing, and then it holds an output.
C6_CompletedOnlyFromProcessing ==
    [][\A j \in Jobs :
         jobs'[j] # jobs[j] /\ jobs'[j].status = "completed"
            => jobs[j].status = "processing" /\ jobs'[j].output_data # Null]_vars

\* C7: started_at is written exactly once, at pending->processing, and
\* completed_at exactly once, at the transition into completed or failed;
\* started_at is absent while pending, completed_at absent while pending or
\* processing.
C7_TimestampsWrittenOnce ==
    \A j \in Jobs :
        /\ Cardinality(WritesOf(j, {"processing"})) <= 1
        /\ Cardinality(WritesOf(j, Terminal)) <= 1
        /\ jobs[j].status = "pending" => jobs[j].started_at = NullTs
        /\ jobs[j].status \in {"pending", "processing"} => jobs[j].completed_at = NullTs
        /\ jobs[j].status # "pending" => jobs[j].started_at # NullTs
        /\ jobs[j].status \in Terminal => jobs[j].completed_at # NullTs

\* C8: every status transition appends one (status, timestamp) record to the
\* job's log, which therefore always equals the job's transition history.
C8_LogIsHistory ==
    \A j \in Jobs : log[j] = history[j]

QueuedTypes == {"segment", "stain", "3d", "render"}

C11_ExhaustiveRouting ==
    /\ \A j \in Jobs :
          jobs[j].type \in RowTypes /\ enqResult.job = j => enqResult.result = "queued"
    /\ \A q \in QueueNames : \A i, k \in DOMAIN queues[q] :
          /\ jobs[queues[q][i].job].type = jobs[queues[q][k].job].type
          /\ queues[q][i].worker_class = queues[q][k].worker_class

\* C12: when the per-job timeout elapses while a handler runs, the job
\* becomes failed with the timeout error and the handler is abandoned: a call
\* that timed out is no longer running, so it makes no later write to the job.
C12_TimeoutFailsAndAbandons ==
    /\ [][\A c \in running :
            c.id \in timedOut' \ timedOut
               => /\ c.pc = "work"
                  /\ jobs'[c.job].status = "failed"
                  /\ jobs'[c.job].error_message = TimeoutText]_vars
    /\ [](\A c \in running : c.id \notin timedOut)
    /\ [](\A q \in QueueNames : \A i \in DOMAIN queues[q] : queues[q][i].id \notin timedOut)

\* C12 witness: a call timed out and its job is failed with the timeout text.
C12_Witness ==
    \E j \in Jobs :
        /\ timedOut # {}
        /\ jobs[j].status = "failed"
        /\ jobs[j].error_message = TimeoutText

\* C14: for each stage type the number of jobs of that type in status
\* processing, and the number of calls of that type being run, never exceeds
\* the number of workers of that type's queue, whatever the other queues hold;
\* a call beyond the bound stays on its queue.
C14_PoolBound ==
    \A t \in QueuedTypes :
        /\ Cardinality({j \in Jobs : jobs[j].type = t /\ jobs[j].status = "processing"})
               <= PoolBound
        /\ Cardinality({c \in running : c.queue = Route(t).queue}) <= PoolBound

\* C14 witness: with one worker per queue, a job is processing while the call
\* of another job of the same type waits on the queue, its job still pending.
C14_Witness ==
    \E j1, j2 \in Jobs :
        /\ deployment = "per-queue"
        /\ j1 # j2 /\ jobs[j1].type = jobs[j2].type
        /\ jobs[j1].status = "processing" /\ jobs[j2].status = "pending"
        /\ \E i \in DOMAIN queues[Route(jobs[j2].type).queue] :
              queues[Route(jobs[j2].type).queue][i].job = j2

\* every 'processing' write made so far (one per start of a handler), and the
\* calls enqueued whose handler has not started yet
HandlerStarts == UNION {{<<j, i>> : i \in WritesOf(j, {"processing"})} : j \in Jobs}
Waiting ==
    {c.id : c \in {d \in running : d.pc = "dequeued"}}
       \cup UNION {{queues[q][i].id : i \in DOMAIN queues[q]} : q \in QueueNames}

\* C13: the core never retries: the handler is started at most once per
\* enqueue call, the end of a handler (also a failing one) puts nothing back
\* on a queue, and an external call inside a stage (the vision request) is
\* attempted once.
C13_NoRetry ==
    /\ [](Cardinality(HandlerStarts) + Cardinality(Waiting) <= enqCount)
    /\ [][\A c \in running : EndStep(c) => queues' = queues]_vars
    /\ [](seg.attempts <= 1)

\* the dispatcher's part of C13, which holds on its own
C13_DispatcherNoRetry ==
    /\ [](Cardinality(HandlerStarts) + Cardinality(Waiting) <= enqCount)
    /\ [][\A c \in running : EndStep(c) => queues' = queues]_vars

\* C18: no segmentation job is completed with an empty detection list, and a
\* job whose images were all answered by the vision model (idx at the last
\* image, its response read), each with zero detections, ends failed with
\* NoComponentsDetected.
C18_NoEmptyCompletion ==
    /\ jobs[SegCall.job].status = "completed" /\ seg.pc = "done"
          => seg.masks # <<>>
    /\ (/\ seg.pc = "done"
        /\ seg.images # <<>> /\ seg.idx = Len(seg.images) /\ seg.k >= 1
        /\ \A i \in DOMAIN seg.images : seg.images[i] = <<>>)
          => /\ jobs[SegCall.job].status = "failed"
             /\ jobs[SegCall.job].error_message = "NoComponentsDetected"

\* C19: in a completed segmentation output every label that occurs in the
\* detections occurs exactly once in the component list, and no other label
\* occurs; labels that differ only in case are different labels.
C19_ComponentsDeduplicated ==
    jobs[SegCall.job].status = "completed" /\ seg.pc = "done" =>
        \A label \in Labels :
            Cardinality({i \in DOMAIN seg.components : seg.components[i] = label})
               = IF \E i \in DOMAIN seg.masks : seg.masks[i] = label THEN 1 ELSE 0

\* C19 witness: a completed output whose detections carry both "leg" and "Leg".
C19_Witness ==
    /\ jobs[SegCall.job].status = "completed" /\ seg.pc = "done"
    /\ \E i, k \in DOMAIN seg.masks : seg.masks[i] = "leg" /\ seg.masks[k] = "Leg"
    /\ Len(seg.components) = 2

\* C16: a job whose input fails validation never reaches processing and has
\* no side effect: a render job with frame count F < 2 is never processing or
\* completed, no frame is written, nothing is assembled or uploaded, no
\* render_outputs record is created, and it ends failed with InvalidFrameCount.
C16_InvalidFrameCountRejected ==
    render.pc # "idle" /\ render.frames < 2 =>
        /\ jobs[RenderCall.job].status \notin {"processing", "completed"}
        /\ render.files = {} /\ render.video = <<>> /\ render.gif = <<>>
        /\ render.uploads = {} /\ render.outputs = 0
        /\ render.pc = "done" =>
              /\ jobs[RenderCall.job].status = "failed"
              /\ jobs[RenderCall.job].error_message = "InvalidFrameCount"

\* the fraction a of a full turn equals i / F
IsTurn(a, i, F) == a.den > 0 /\ a.num * F = i * a.den

\* C17: for F >= 2, once blender is through there are exactly F frame files,
\* frame i (i = 0..F-1) at angle 2*pi*i/F, which starts at 0, stays below a
\* full turn and increases strictly with i; the video and the animated image
\* each consist of all F frames in ascending index order.
C17_TurntableFrames ==
    render.frames >= 2 =>
        LET F == render.frames
            Assembled(v) ==
                /\ Len(v) = F
                /\ \A n \in 1..F : IsTurn(v[n], n - 1, F)
                /\ \A n \in 1..(F - 1) : v[n].num * v[n + 1].den < v[n + 1].num * v[n].den
        IN  /\ render.pc \in {"video", "gif", "upload_mp4", "upload_gif", "insert", "complete"}
                  \/ jobs[RenderCall.job].status = "completed"
               => /\ Cardinality(render.files) = F
                  /\ \A i \in 0..(F - 1) :
                        \E f \in render.files :
                            /\ f.name = FrameName(i)
                            /\ IsTurn(f.angle, i, F)
                            /\ f.angle.num >= 0 /\ f.angle.num < f.angle.den
                            /\ i = 0 => f.angle.num = 0
            /\ render.video # <<>> => Assembled(render.video)
            /\ render.gif # <<>> => Assembled(render.gif)
            /\ jobs[RenderCall.job].status = "completed"
                  => Assembled(render.video) /\ Assembled(render.gif)

\* C17 witness: a completed render of more than two frames.
C17_Witness ==
    /\ jobs[RenderCall.job].status = "completed"
    /\ render.frames > 2
    /\ Len(render.video) = render.frames /\ Len(render.gif) = render.frames

\* C20: a render job whose models_3d row does not exist renders no frame,
\* assembles and uploads nothing, creates no render_outputs record and is
\* never completed; when its handler is done the job is failed, and when the
\* lookup was answered (no row) the error is the lookup's message.
C20_MissingModelFailsFast ==
    render.pc # "idle" /\ render.model = "absent" =>
        /\ render.files = {} /\ render.video = <<>> /\ render.gif = <<>>
        /\ render.uploads = {} /\ render.outputs = 0
        /\ jobs[RenderCall.job].status # "completed"
        /\ render.pc \in {"start", "get_model", "done"}
        /\ render.pc = "done" => jobs[RenderCall.job].status = "failed"
        /\ render.lookup = "no rows" =>
              /\ jobs[RenderCall.job].status = "failed"
              /\ jobs[RenderCall.job].error_message = ModelNotFoundText

\* C20 witness: the lookup of the missing model was answered and the job failed.
C20_Witness ==
    /\ render.model = "absent" /\ render.lookup = "no rows"
    /\ render.pc = "done"
    /\ jobs[RenderCall.job].status = "failed"

\* C21: a photogrammetry job completes only with both encoded mesh files (GLB
\* and USDZ) uploaded, made from the one reconstructed mesh; when the
\* reconstruction tool has run and left no usable mesh, no conversion is run,
\* no mesh file is uploaded, the job is never completed and it ends failed
\* with ReconstructionFailed.
C21_ReconstructionChecked ==
    mesh.pc # "idle" /\ mesh.mode = "photogrammetry" =>
        /\ jobs[MeshCall.job].status = "completed"
              => /\ {"model.glb", "model.usdz"} \subseteq mesh.uploads
                 /\ {"texturedMesh.obj", "output.glb", "output.usdz"} \subseteq mesh.files
        /\ mesh.tool = "exit 0" /\ mesh.recon # "usable"
              => /\ mesh.converted = {} /\ mesh.uploads = {}
                 /\ jobs[MeshCall.job].status # "completed"
                 /\ mesh.pc = "done"
                       => /\ jobs[MeshCall.job].status = "failed"
                          /\ jobs[MeshCall.job].error_message = "ReconstructionFailed"

\* the 8-bit value v is the blend preserve*src + (1 - preserve)*tgt, cut to
\* an integer
IsBlend(v, src, tgt, k) ==
    /\ Steps * v <= src * k + tgt * (Steps - k)
    /\ src * k + tgt * (Steps - k) < Steps * (v + 1)

C23_GrainScaledByStrength ==
    stain.pc = "grained" =>
        stain.final = Clip(RoundHalfEven(stain.colored * Steps + stain.grain * stain.strength,
                                         Steps))

\* the five maps of a Texture Bundle
MapNames == {"albedo", "normal", "roughness", "ao", "preview"}

\* C24: every completed stain job has a texture record with all five maps
\* (albedo, normal, roughness, ambient occlusion, preview), each stored with
\* the width and height of the source image.
C24_FiveMapsSameSize ==
    stain.pc \notin {"idle", "pixel", "recolored", "grained"} =>
        \A j \in {1, 2} :
            jobs[j].status = "completed" =>
                \E t \in stain.textures :
                    /\ t.job = j
                    /\ DOMAIN t.urls = MapNames
                    /\ \A n \in MapNames :
                          /\ stain.storage[t.urls[n]] # NoFile
                          /\ stain.storage[t.urls[n]].size = stain.size

\* C24 witness: a stain job completed on an image that is not square.
C24_Witness ==
    /\ stain.pc = "done"
    /\ jobs[1].status = "completed"
    /\ stain.size[1] # stain.size[2]
    /\ Cardinality(stain.textures) = 1

\* C25: artifacts are write-once: the files of every texture record stay as
\* the record's job wrote them, and a stain job that processes the same upload
\* again writes its maps to a new location (one that holds no file of an
\* earlier artifact).
C25_WriteOnce ==
    stain.pc \notin {"idle", "pixel", "recolored", "grained"} =>
        /\ \A t \in stain.textures :
              \A n \in DOMAIN t.urls : stain.storage[t.urls[n]].job = t.job
        /\ stain.pc = "upload" /\ Cardinality(stain.done) < Len(TextureMaps)
              => \A t \in stain.textures :
                    \A n \in DOMAIN t.urls :
                        t.urls[n] # TexturePath("u1", "up1", TextureMaps[Cardinality(stain.done) + 1])

\* No statement is in flight.
StatsQuiet == \A s \in Sessions : stats.sess[s].pc = "idle"

\* C26: for every user, total_images_processed has grown by exactly 1 for each
\* committed update that took an image_processing_operations row of the user
\* from a status other than completed to completed, and by nothing else,
\* also when such updates run concurrently.
C26_ProcessedCountsCompletions ==
    stats.pc = "db" /\ StatsQuiet =>
        \A u \in Users : stats.rows[u].total_images_processed = stats.credited[u]

RECURSIVE SumCounts(_, _)
SumCounts(counts, keys) ==
    IF keys = {} THEN 0
    ELSE LET k == CHOOSE x \in keys : TRUE
         IN  counts[k] + SumCounts(counts, keys \ {k})

\* C27: for every user the per-type counters of operation_counts add up to
\* total_images_processed, and total_images_uploaded is the number of image
\* rows inserted for the user.
C27_CountersAgree ==
    stats.pc = "db" /\ StatsQuiet =>
        \A u \in Users :
            /\ SumCounts(stats.rows[u].operation_counts,
                         DOMAIN stats.rows[u].operation_counts)
                  = stats.rows[u].total_images_processed
            /\ stats.rows[u].total_images_uploaded = stats.images[u]

\* C27 witness: a user with an inserted image and two counted operations.
C27_Witness ==
    /\ stats.pc = "db" /\ StatsQuiet
    /\ stats.rows["u1"].total_images_processed = 2
    /\ stats.rows["u1"].total_images_uploaded = 1

\* C28: the images row is completed only after the result was obtained and
\* stored; a success response is returned only if the row update took effect;
\* an error response has status 500 and leaves the row unchanged.
C28_SuccessMeansRowUpdated ==
    edge.pc # "idle" =>
        /\ edge.row = "completed" => "remove.bg" \in edge.calls /\ edge.stored
        /\ edge.response.status = 500 => edge.row = "pending" /\ ~edge.written
        /\ edge.response.success => edge.written /\ edge.row = "completed"

\* the operation names the function derives a suffix of its own for
SuffixedOperations == {op \in Operations : op # "" /\ OpSuffix(op) # op}

\* C29: a request with a missing field or an unsupported operation is
\* rejected before any external call, upload or database write; and every
\* operation with a suffix of its own (remove-bg, resize) is one the function
\* processes, so a complete request for it is not rejected as unsupported.
C29_SuffixedOperationsProcessed ==
    edge.pc = "done" =>
        /\ edge.response.error \in {"Missing required fields:imageId,imageUrl, or operation", "Operation not supported!"}
              => edge.calls = {} /\ ~edge.stored /\ ~edge.written
        /\ (/\ edge.req.imageId # "" /\ edge.req.imageUrl # ""
            /\ edge.req.operation \in SuffixedOperations)
              => edge.response.error # "Operation not supported!"

====
